---- MODULE Spec2Model ----
(***************************************************************************)
(* A model of secparse/db.py: the four-table store behind EdgarDatabase,   *)
(* the unit of work of its SQLAlchemy session (objects staged with         *)
(* add_all, autoflush before a query, commit, rollback) and the operations *)
(* insert_objects, close_session, _check_exists, _select_filings and       *)
(* set_filing_data.                                                        *)
(***************************************************************************)
EXTENDS Integers, Sequences, FiniteSets, TLC

\* ------------------------------------------------------------------------
\* Bounds of the model
\* ------------------------------------------------------------------------
MaxCols == 3      \* data.shape[1] ranges over 1..MaxCols
MaxRows == 2      \* rows of the spreadsheet below its header row
MaxNew == 1       \* objects staged by insert_objects and not yet committed
MaxTerms == 1000  \* longest list of match values handed to _select_filings

CIKs == {"0001", "0002"}
Accessions == {"A1", "A2"}
Urls == {"u1", "u2"}
NoMatch == "-"    \* a match value that is no key of any row
Terms == {"Revenue", "Assets"}
Cells == {"", "100"}
FilingTypes == {"10-K"}

\* ------------------------------------------------------------------------
\* Mapped classes (only the columns the operations read or write)
\* ------------------------------------------------------------------------
CompanyInfo(cik) == [kind |-> "CompanyInfo", company_cik |-> cik]

FilingInfo(accession, cik, url) ==
    [kind |-> "FilingInfo", filing_accession |-> accession, company_cik |-> cik,
     filing_url |-> url, parsed_data |-> FALSE]

FilingData(accession, term, type, value, period) ==
    [kind |-> "FilingData", filing_accession |-> accession, filing_term |-> term,
     filing_type |-> type, filing_value |-> value, value_period |-> period]

\* The primary key of a row, tagged with its table.
PrimaryKey(o) ==
    CASE o.kind = "CompanyInfo" -> <<"company", o.company_cik>>
      [] o.kind = "FilingInfo" -> <<"filing", o.filing_accession>>
      [] OTHER -> <<"filing_data", o.filing_accession, o.filing_term, o.value_period>>

\* ------------------------------------------------------------------------
\* Spreadsheet input: a two-dimensional array, row 0 the header.  A header
\* cell is a string (a sequence of tokens) or a non-string value.
\* ------------------------------------------------------------------------
Str(toks) == [isstr |-> TRUE, toks |-> toks]
NonStr == [isstr |-> FALSE, toks |-> <<>>]

HeaderCells ==
    { Str(<<"USD ($)", "Dec.", "31,", "2020">>),
      Str(<<"Dec.", "31,", "2019">>),
      Str(<<"Total">>),
      Str(<<"USD ($)">>),
      NonStr }

HeaderRows(n) == { <<Str(<<"Item">>)>> \o h : h \in [1..(n - 1) -> HeaderCells] }
DataRows(n) == { <<t>> \o v : t \in Terms, v \in [1..(n - 1) -> Cells] }
RowSeqs(n, rows) == UNION { [1..k -> DataRows(n)] : k \in 0..rows }

\* The arrays of at most cols columns and at most rows data rows.  shape1 is
\* data.shape[1]; cells is the sequence of rows, header first.  An array
\* without any row keeps its number of columns.
Sheets(cols, rows) ==
    UNION { { [shape1 |-> n, cells |-> <<>>] } \cup
            { [shape1 |-> n, cells |-> <<h>> \o r] :
                h \in HeaderRows(n), r \in RowSeqs(n, rows) }
          : n \in 1..cols }

VARIABLES
    company,        \* committed rows of the company table
    filing,         \* committed rows of the filing table
    filing_data,    \* committed rows of the filing-data table
    new,            \* the session's uncommitted objects, in add order
    data,           \* the spreadsheet the caller ingests
    filing_type,    \* the tag the caller supplies with it
    last,           \* the last call: operation, key, return value
    exc,            \* the exception that left the last call, "" if none
    query_terms,    \* the match values of the last _select_filings
    query_return    \* the list the last _select_filings returned

vars == <<company, filing, filing_data, new, data, filing_type, last, exc,
          query_terms, query_return>>

\* ------------------------------------------------------------------------
\* The session's unit of work over the sqlite store
\* ------------------------------------------------------------------------
Range(s) == { s[i] : i \in DOMAIN s }

\* The committed tables together with the session's uncommitted objects.
Db == [company |-> company, filing |-> filing, filing_data |-> filing_data, new |-> new]

Committed(db) == db.company \cup db.filing \cup db.filing_data

\* A flush that compared the new rows with the stored rows only and not with
\* each other; C8 tells it from the flush of the store.
IntegrityError_stored_rows_only(db) ==
    \E i \in DOMAIN db.new : \E r \in Committed(db) : PrimaryKey(db.new[i]) = PrimaryKey(r)

\* Flushing the uncommitted objects INSERTs them; sqlite rejects a row whose
\* primary key is already taken by a stored row or by another row of the flush.
\* Foreign keys are declared in the schema but sqlite does not enforce them
\* (no PRAGMA foreign_keys is issued on the engine).
IntegrityError(db) ==
    \/ \E i, j \in DOMAIN db.new : i < j /\ PrimaryKey(db.new[i]) = PrimaryKey(db.new[j])
    \/ \E i \in DOMAIN db.new : \E r \in Committed(db) : PrimaryKey(db.new[i]) = PrimaryKey(r)

add_all(db, objects) == [db EXCEPT !.new = @ \o objects]

\* session.rollback(): every object added since the last commit is expunged.
rollback(db) == [db EXCEPT !.new = <<>>]

OfKind(db, kind) == { o \in Range(db.new) : o.kind = kind }

\* session.commit() after a flush that raised nothing.
commit(db) ==
    [company |-> db.company \cup OfKind(db, "CompanyInfo"),
     filing |-> db.filing \cup OfKind(db, "FilingInfo"),
     filing_data |-> db.filing_data \cup OfKind(db, "FilingData"),
     new |-> <<>>]

\* A query without autoflush, which sees the committed rows only; C7 tells it
\* from the query of the session.
Visible_committed_only(db, kind) ==
    CASE kind = "CompanyInfo" -> db.company
      [] kind = "FilingInfo" -> db.filing
      [] OTHER -> db.filing_data

\* What a query sees: autoflush makes the uncommitted objects visible.
Visible(db, kind) ==
    OfKind(db, kind) \cup
    (CASE kind = "CompanyInfo" -> db.company
       [] kind = "FilingInfo" -> db.filing
       [] OTHER -> db.filing_data)

\* ------------------------------------------------------------------------
\* Queries
\* ------------------------------------------------------------------------
\* query(distinct(column)).filter(exists().where(column == value)).first()
_check_exists(db, kind, column, value) ==
    LET rows == Visible(db, kind)
        res == IF \E r \in rows : r[column] = value THEN { r[column] : r \in rows } ELSE {}
    IN  res # {}

\* query(FilingInfo, CompanyInfo).join(CompanyInfo).all()
select_all_filings(db) ==
    { <<f, c>> \in Visible(db, "FilingInfo") \X Visible(db, "CompanyInfo") :
        f.company_cik = c.company_cik }

\* The order in which the store returns the rows of one query.
RowOrder == <<"A1", "A2">>

InTerms(value, terms) == \E i \in DOMAIN terms : terms[i] = value

\* The value of the filtered column in a (FilingInfo, CompanyInfo) pair.
ColumnValue(pair, query_col) ==
    IF query_col.kind = "CompanyInfo" THEN pair[2][query_col.name] ELSE pair[1][query_col.name]

\* query(FilingInfo, CompanyInfo).join(CompanyInfo).filter(query_col.in_(terms)).all()
Query(db, query_col, terms) ==
    LET Match(a) == { pair \in select_all_filings(db) :
                        /\ pair[1].filing_accession = a
                        /\ InTerms(ColumnValue(pair, query_col), terms) }
        Hit(a) == Match(a) # {}
        hits == SelectSeq(RowOrder, Hit)
    IN  [i \in 1..Len(hits) |-> CHOOSE pair \in Match(hits[i]) : TRUE]

SqliteTermLimit == 999
ChunkLen == 995

Min(a, b) == IF a < b THEN a ELSE b

\* [query_terms[i:i + 995] for i in range(0, len(query_terms), 995)]
query_term_chunks(terms) ==
    LET n == (Len(terms) + ChunkLen - 1) \div ChunkLen
    IN  [k \in 1..n |-> SubSeq(terms, (k - 1) * ChunkLen + 1, Min(k * ChunkLen, Len(terms)))]

\* utilities.flatten: the lists of a list, joined in order
RECURSIVE flatten(_)
flatten(lists) == IF lists = <<>> THEN <<>> ELSE Head(lists) \o flatten(Tail(lists))

_select_filings(db, query_col, terms) ==
    IF Len(terms) < SqliteTermLimit
    THEN Query(db, query_col, terms)
    ELSE LET chunks == query_term_chunks(terms)
         IN  flatten([k \in DOMAIN chunks |-> Query(db, query_col, chunks[k])])

\* ------------------------------------------------------------------------
\* set_filing_data
\* ------------------------------------------------------------------------
NotAnnotation(tok) == tok # "USD ($)"

\* date_str.replace('USD ($)', ''); a non-string has no replace (AttributeError)
prep_date(date_str) ==
    IF date_str.isstr
    THEN [attribute_error |-> FALSE, str |-> SelectSeq(date_str.toks, NotAnnotation)]
    ELSE [attribute_error |-> TRUE, str |-> <<>>]

\* `if prepped_date:` is false for False and for the empty string
Truthy(prepped_date) == ~prepped_date.attribute_error /\ prepped_date.str # <<>>

MonthNum == ("Dec." :> 12) @@ ("Jun." :> 6)
DayNum == ("31," :> 31) @@ ("30," :> 30)
YearNum == ("2020" :> 2020) @@ ("2019" :> 2019)

\* dateutil.parser.parse: a date, or ValueError
parse(str) ==
    IF /\ Len(str) = 3
       /\ str[1] \in DOMAIN MonthNum
       /\ str[2] \in DOMAIN DayNum
       /\ str[3] \in DOMAIN YearNum
    THEN [value_error |-> FALSE, year |-> YearNum[str[3]], month |-> MonthNum[str[1]],
          day |-> DayNum[str[2]]]
    ELSE [value_error |-> TRUE, year |-> 0, month |-> 0, day |-> 0]

\* strftime(date, '%Y%m%d'), as the number its eight digits spell
strftime(date) == date.year * 10000 + date.month * 100 + date.day

\* `if not row[-1]: continue`
NotBlank(row) == row[Len(row)] # ""

\* Rows that took their value from the trailing cell instead of the cell of
\* the column; C4 tells them from the rows the loop builds.
rows_to_insert_trailing_cell(d, accession, type, column_num, period) ==
    LET kept == SelectSeq(Tail(d.cells), NotBlank)
    IN  [i \in 1..Len(kept) |->
            FilingData(accession, kept[i][1], type, kept[i][Len(kept[i])], period)]

rows_to_insert(d, accession, type, column_num, period) ==
    LET kept == SelectSeq(Tail(d.cells), NotBlank)
    IN  [i \in 1..Len(kept) |->
            FilingData(accession, kept[i][1], type, kept[i][column_num + 1], period)]

\* A loop body that left the flag alone; C5 tells it from the update below.
set_parsed_data_skipped(db, accession) == db

\* `c.parsed_data = True` for the rows of FilingInfo with this accession
set_parsed_data(db, accession) ==
    LET Mark(o) == IF o.kind = "FilingInfo" /\ o.filing_accession = accession
                   THEN [o EXCEPT !.parsed_data = TRUE] ELSE o
    IN  [db EXCEPT !.filing = { Mark(f) : f \in @ },
                   !.new = [i \in DOMAIN @ |-> Mark(@[i])]]

Return(db, ret, column_num, why) == [db |-> db, ret |-> ret, col |-> column_num, why |-> why]

\* A loop that committed once, after the last column, and rolled the whole
\* call back on a failure; C9 tells it from the loop that commits per column.
RECURSIVE one_transaction(_, _, _, _, _, _)
one_transaction(before, db, d, accession, type, column_num) ==
    IF column_num >= d.shape1 THEN Return(commit(db), TRUE, 0, "")
    ELSE IF d.cells = <<>> THEN Return(rollback(before), FALSE, column_num, "IndexError")
    ELSE LET prepped_date == prep_date(d.cells[1][column_num + 1]) IN
         IF ~Truthy(prepped_date) THEN Return(before, FALSE, column_num, "falsy")
         ELSE LET date == parse(prepped_date.str) IN
              IF date.value_error THEN Return(rollback(before), FALSE, column_num, "ValueError")
              ELSE LET period == strftime(date)
                       added == add_all(db, rows_to_insert(d, accession, type, column_num, period))
                   IN  IF IntegrityError(added)
                       THEN Return(rollback(before), FALSE, column_num, "IntegrityError")
                       ELSE one_transaction(before, set_parsed_data(added, accession),
                                            d, accession, type, column_num + 1)

column_loop_single_commit(db, d, accession, type, column_num) ==
    one_transaction(db, db, d, accession, type, column_num)

\* The loop `for column_num in range(1, num_columns)` from column_num on.
RECURSIVE column_loop(_, _, _, _, _)
column_loop(db, d, accession, type, column_num) ==
    IF column_num >= d.shape1 THEN Return(db, TRUE, 0, "")
    ELSE IF d.cells = <<>> THEN Return(rollback(db), FALSE, column_num, "IndexError")
    ELSE LET prepped_date == prep_date(d.cells[1][column_num + 1]) IN
         IF ~Truthy(prepped_date) THEN Return(db, FALSE, column_num, "falsy")
         ELSE LET date == parse(prepped_date.str) IN
              IF date.value_error THEN Return(rollback(db), FALSE, column_num, "ValueError")
              ELSE LET period == strftime(date)
                       added == add_all(db, rows_to_insert(d, accession, type, column_num, period))
                   IN  IF IntegrityError(added)
                       THEN Return(rollback(added), FALSE, column_num, "IntegrityError")
                       ELSE column_loop(commit(set_parsed_data(added, accession)),
                                        d, accession, type, column_num + 1)

set_filing_data(db, pair, d, type) == column_loop(db, d, pair[1].filing_accession, type, 1)

\* ------------------------------------------------------------------------
\* The state machine
\* ------------------------------------------------------------------------
Call(op, key, ret, col, why) == [op |-> op, key |-> key, ret |-> ret, col |-> col, why |-> why]

Store(db) ==
    /\ company' = db.company
    /\ filing' = db.filing
    /\ filing_data' = db.filing_data
    /\ new' = db.new

\* A new session on an empty store, and the spreadsheet the caller holds.
InitWith(sheets) ==
    /\ company = {}
    /\ filing = {}
    /\ filing_data = {}
    /\ new = <<>>
    /\ data \in sheets
    /\ filing_type \in FilingTypes
    /\ last = Call("make_session", "", FALSE, 0, "")
    /\ exc = ""
    /\ query_terms = <<>>
    /\ query_return = <<>>

Init == InitWith(Sheets(MaxCols, MaxRows))

Entities ==
    { CompanyInfo(cik) : cik \in CIKs } \cup
    { FilingInfo("A1", "0001", "u1"), FilingInfo("A2", "0002", "u2") }

\* insert_objects(objects): a single entity or a list of entities
InsertInputs ==
    { [islist |-> FALSE, objects |-> <<e>>] : e \in Entities } \cup
    { [islist |-> TRUE, objects |-> l] : l \in UNION { [1..k -> Entities] : k \in 0..MaxNew } }

InsertObjects(input) ==
    /\ exc = ""
    /\ Len(new) + Len(input.objects) <= MaxNew
    /\ Store(add_all(Db, input.objects))
    /\ last' = Call("insert_objects", "", FALSE, 0, "")
    /\ UNCHANGED <<data, filing_type, exc, query_terms, query_return>>

\* close_session: commit, then close; an IntegrityError of the flush is not
\* caught (only ConnectionError is, and re-raised).
CloseSession ==
    /\ exc = ""
    /\ IF IntegrityError(Db)
       THEN /\ Store(rollback(Db))
            /\ exc' = "IntegrityError"
       ELSE /\ Store(commit(Db))
            /\ exc' = ""
    /\ last' = Call("close_session", "", FALSE, 0, "")
    /\ UNCHANGED <<data, filing_type, query_terms, query_return>>

CheckExists(op, kind, column, value) ==
    /\ exc = ""
    /\ IF IntegrityError(Db)
       THEN /\ Store(rollback(Db))
            /\ exc' = "IntegrityError"
            /\ last' = Call(op, value, FALSE, 0, "")
       ELSE /\ UNCHANGED <<company, filing, filing_data, new, exc>>
            /\ last' = Call(op, value, _check_exists(Db, kind, column, value), 0, "")
    /\ UNCHANGED <<data, filing_type, query_terms, query_return>>

CheckCikExists == \E cik \in CIKs : CheckExists("check_cik_exists", "CompanyInfo", "company_cik", cik)

CheckFilingUrlExists ==
    \E url \in Urls : CheckExists("check_filing_url_exists", "FilingInfo", "filing_url", url)

CheckAccessionExists ==
    \E a \in Accessions :
        CheckExists("check_accession_exists", "FilingInfo", "filing_accession", a)

SetFilingData ==
    /\ exc = ""
    /\ \E pair \in select_all_filings(Db) :
          LET r == set_filing_data(Db, pair, data, filing_type)
          IN  /\ Store(r.db)
              /\ last' = Call("set_filing_data", pair[1].filing_accession, r.ret, r.col, r.why)
    /\ UNCHANGED <<data, filing_type, exc, query_terms, query_return>>

\* A list of match values: one value first, one last, no key in between.
QueryLists(keys) ==
    { [i \in 1..n |-> IF i = 1 THEN a ELSE IF i = n THEN b ELSE NoMatch] :
        n \in (SqliteTermLimit - 1)..MaxTerms, a \in keys \cup {NoMatch}, b \in keys }

SelectFilings(op, query_col, terms) ==
    /\ exc = ""
    /\ IF IntegrityError(Db)
       THEN /\ Store(rollback(Db))
            /\ exc' = "IntegrityError"
            /\ query_return' = <<>>
       ELSE /\ UNCHANGED <<company, filing, filing_data, new, exc>>
            /\ query_return' = _select_filings(Db, query_col, terms)
    /\ query_terms' = terms
    /\ last' = Call(op, "", FALSE, 0, "")
    /\ UNCHANGED <<data, filing_type>>

SelectFilingsByCiks ==
    \E cik_nums \in QueryLists(CIKs) :
        SelectFilings("select_filings_by_ciks",
                      [kind |-> "CompanyInfo", name |-> "company_cik"], cik_nums)

SelectFilingsByAccessions ==
    \E accession_nums \in QueryLists(Accessions) :
        SelectFilings("select_filings_by_accessions",
                      [kind |-> "FilingInfo", name |-> "filing_accession"], accession_nums)

SelectFilingsByUrl ==
    \E filing_urls \in QueryLists(Urls) :
        SelectFilings("select_filings_by_url",
                      [kind |-> "FilingInfo", name |-> "filing_url"], filing_urls)

\* The write paths: staging, commit on close, ingestion of the spreadsheet.
Next ==
    \/ \E input \in InsertInputs : InsertObjects(input)
    \/ CloseSession
    \/ SetFilingData

Spec == Init /\ [][Next]_vars

\* The existence checks beside the write paths, on the spreadsheets that have
\* at most one data column and one data row.
InitCheck == InitWith(Sheets(2, 1))

NextCheck ==
    \/ Next
    \/ CheckCikExists
    \/ CheckFilingUrlExists
    \/ CheckAccessionExists

SpecCheck == InitCheck /\ [][NextCheck]_vars

\* The filtered lookups, over a store that holds any of the entities and a
\* session that has staged at most MaxNew more.
InitSelect ==
    /\ company \in SUBSET { e \in Entities : e.kind = "CompanyInfo" }
    /\ filing \in SUBSET { e \in Entities : e.kind = "FilingInfo" }
    /\ filing_data = {}
    /\ new \in UNION { [1..k -> Entities] : k \in 0..MaxNew }
    /\ data = [shape1 |-> 1, cells |-> <<>>]
    /\ filing_type \in FilingTypes
    /\ last = Call("make_session", "", FALSE, 0, "")
    /\ exc = ""
    /\ query_terms = <<>>
    /\ query_return = <<>>

NextSelect ==
    \/ SelectFilingsByCiks
    \/ SelectFilingsByAccessions
    \/ SelectFilingsByUrl

SpecSelect == InitSelect /\ [][NextSelect]_vars

\* ------------------------------------------------------------------------
\* The spreadsheet as the properties read it
\* ------------------------------------------------------------------------
SetFilingDataOp == "set_filing_data"
CheckOps == {"check_cik_exists", "check_filing_url_exists", "check_accession_exists"}
SelectOps == {"select_filings_by_ciks", "select_filings_by_accessions", "select_filings_by_url"}

HasHeader == data.cells # <<>>
DataColumns == 1..(data.shape1 - 1)
HeaderAt(c) == data.cells[1][c + 1]
BodyRows == IF HasHeader THEN Tail(data.cells) ELSE <<>>

\* The headers that spell a date, and the period each of them names.
DateHeaders == { Str(<<"USD ($)", "Dec.", "31,", "2020">>), Str(<<"Dec.", "31,", "2019">>) }
PeriodOf(cell) ==
    CASE cell = Str(<<"USD ($)", "Dec.", "31,", "2020">>) -> 20201231
      [] cell = Str(<<"Dec.", "31,", "2019">>) -> 20191231

\* The data rows whose trailing cell is not empty.
ValueRows == { i \in DOMAIN BodyRows : BodyRows[i][data.shape1] # "" }
DupTerms == \E i, j \in ValueRows : i < j /\ BodyRows[i][1] = BodyRows[j][1]

\* The data points column c of the spreadsheet stands for.
Expected(accession, c) ==
    { [kind |-> "FilingData", filing_accession |-> accession, filing_term |-> BodyRows[i][1],
       filing_type |-> filing_type, filing_value |-> BodyRows[i][c + 1],
       value_period |-> PeriodOf(HeaderAt(c))] : i \in ValueRows }
ExpectedBefore(accession, c) == UNION { Expected(accession, b) : b \in 1..(c - 1) }

DataOf(rows, accession) == { dp \in rows : dp.filing_accession = accession }
FilingsOf(rows, accession) == { f \in rows : f.filing_accession = accession }
KeyOf(dp) == <<dp.filing_accession, dp.filing_term, dp.value_period>>

\* ------------------------------------------------------------------------
\* C1: a call of set_filing_data on a spreadsheet one of whose data columns
\* has a header that is no date returns false and leaves none of the data
\* points it built in the committed store.
\* ------------------------------------------------------------------------
C1_NoRowsOfAFailedCall ==
    [][ ( /\ last'.op = SetFilingDataOp
          /\ HasHeader
          /\ \E c \in DataColumns : HeaderAt(c) \notin DateHeaders )
        => ( ~last'.ret /\ filing_data' = filing_data ) ]_vars

\* ------------------------------------------------------------------------
\* C2: whenever a filing's parsed flag becomes true in the committed store,
\* a data point of the same accession is committed with it; no column that
\* inserted nothing commits the flag.
\* ------------------------------------------------------------------------
C2_FlagOnlyWithDataPoints ==
    [][ \A f \in filing' :
          ( f.parsed_data /\ f \notin filing )
          => \E dp \in filing_data' \ filing_data : dp.filing_accession = f.filing_accession ]_vars

\* ------------------------------------------------------------------------
\* C3: every committed filing names the cik of a committed company and every
\* committed data point names the accession of a committed filing.
\* ------------------------------------------------------------------------
C3_ReferencesExist ==
    /\ \A f \in filing : \E c \in company : c.company_cik = f.company_cik
    /\ \A dp \in filing_data : \E f \in filing : f.filing_accession = dp.filing_accession

\* ------------------------------------------------------------------------
\* C4: when set_filing_data returns true for a filing that had no data
\* points, the committed data points of its accession are exactly one per
\* data column and data row with a non-empty trailing cell: the row's term,
\* the cell of that column unchanged, the column's header as YYYYMMDD, the
\* supplied tag.
\* ------------------------------------------------------------------------
C4_CommittedRowsAreTheSheet ==
    [][ ( /\ last'.op = SetFilingDataOp
          /\ last'.ret
          /\ DataOf(filing_data, last'.key) = {} )
        => ( /\ DataOf(filing_data', last'.key)
                  = UNION { Expected(last'.key, c) : c \in DataColumns }
             /\ Cardinality(DataOf(filing_data', last'.key))
                  = Cardinality(DataColumns) * Cardinality(ValueRows) ) ]_vars

\* Two data columns, the first annotated with "USD ($)", a row that is kept
\* and a row that is skipped, ingested with success.
C4_Witness ==
    /\ last.op = SetFilingDataOp
    /\ last.ret
    /\ data.shape1 = 3
    /\ HeaderAt(1) = Str(<<"USD ($)", "Dec.", "31,", "2020">>)
    /\ ValueRows # {}
    /\ \E i \in DOMAIN BodyRows : i \notin ValueRows
    /\ \E dp \in filing_data : dp.filing_accession = last.key /\ dp.value_period = 20201231

\* ------------------------------------------------------------------------
\* C5 as stated: after a call of set_filing_data that returns true, every
\* committed filing of the accession has its parsed flag true, whatever the
\* shape of the spreadsheet.
\* ------------------------------------------------------------------------
C5_FlagAfterAnyTrueReturn ==
    ( last.op = SetFilingDataOp /\ last.ret )
    => \A f \in FilingsOf(filing, last.key) : f.parsed_data

\* C5 amended: after a call of set_filing_data that returns true on a
\* spreadsheet with at least one data column, every committed filing of the
\* accession has its parsed flag true.
C5_FlagAfterTrueReturnWithDataColumn ==
    ( last.op = SetFilingDataOp /\ last.ret /\ data.shape1 >= 2 )
    => \A f \in FilingsOf(filing, last.key) : f.parsed_data

C5_Witness ==
    /\ last.op = SetFilingDataOp
    /\ last.ret
    /\ data.shape1 >= 2
    /\ \E f \in FilingsOf(filing, last.key) : f.parsed_data

\* ------------------------------------------------------------------------
\* C6: for a list of match values at or above the chunking threshold,
\* _select_filings returns every pair a single query over the whole list
\* returns, each exactly once, and nothing else.
\* ------------------------------------------------------------------------
QueryColOf(op) ==
    CASE op = "select_filings_by_ciks" -> [kind |-> "CompanyInfo", name |-> "company_cik"]
      [] op = "select_filings_by_accessions" -> [kind |-> "FilingInfo", name |-> "filing_accession"]
      [] op = "select_filings_by_url" -> [kind |-> "FilingInfo", name |-> "filing_url"]

Unchunked ==
    { pair \in select_all_filings(Db) :
        ColumnValue(pair, QueryColOf(last.op)) \in Range(query_terms) }

Count(seq, x) == Cardinality({ i \in DOMAIN seq : seq[i] = x })

C6_ChunkedEqualsUnchunked ==
    ( last.op \in SelectOps /\ exc = "" /\ Len(query_terms) >= SqliteTermLimit )
    => ( /\ \A pair \in Unchunked : Count(query_return, pair) = 1
         /\ \A i \in DOMAIN query_return : query_return[i] \in Unchunked )

\* ------------------------------------------------------------------------
\* C7 as stated: in any session state an existence check returns true
\* exactly when a row with the key in the checked column has been inserted,
\* staged or committed, and not discarded by a rollback.
\* ------------------------------------------------------------------------
KeysInserted(op) ==
    LET rows == company \cup filing \cup Range(new)
    IN  CASE op = "check_cik_exists" ->
               { o.company_cik : o \in { r \in rows : r.kind = "CompanyInfo" } }
          [] op = "check_filing_url_exists" ->
               { o.filing_url : o \in { r \in rows : r.kind = "FilingInfo" } }
          [] op = "check_accession_exists" ->
               { o.filing_accession : o \in { r \in rows : r.kind = "FilingInfo" } }

ViolatesUniqueness(accession, c) ==
    /\ HasHeader
    /\ \A b \in 1..c : HeaderAt(b) \in DateHeaders
    /\ \/ DupTerms
       \/ \E dp \in Expected(accession, c) :
            \E q \in filing_data \cup ExpectedBefore(accession, c) : KeyOf(dp) = KeyOf(q)

C8_UniquenessViolationReturnsFalse ==
    [][ \A c \in DataColumns :
          ( last'.op = SetFilingDataOp /\ ViolatesUniqueness(last'.key, c) )
          => ( /\ exc' = ""
               /\ ~last'.ret
               /\ new' = <<>>
               /\ (filing_data' \ filing_data) \subseteq ExpectedBefore(last'.key, c) ) ]_vars

\* The same spreadsheet ingested a second time for the same filing.
C8_Witness ==
    /\ last.op = SetFilingDataOp
    /\ ~last.ret
    /\ last.col = 1
    /\ last.why = "IntegrityError"
    /\ ~DupTerms
    /\ ValueRows # {}
    /\ Expected(last.key, 1) \subseteq filing_data

C10_StagedEntitiesSurviveRollback ==
    [][ ( last'.op = SetFilingDataOp /\ last'.why = "ValueError" )
        => \A i \in DOMAIN new :
             \E o \in Range(new') \cup company' \cup filing' :
                PrimaryKey(o) = PrimaryKey(new[i]) ]_vars

====
